---- MODULE Spec2Model ----
(***************************************************************************)
(* State-machine model of the microblog application (app/models.py,        *)
(* app/forms.py, app/errors.py): the user table with its unique columns,   *)
(* the followers association table, posts and the feed query, password     *)
(* hashing, the form validators and the two HTTP error handlers.           *)
(***************************************************************************)
EXTENDS Bags, FiniteSets, Integers, Sequences, TLC

\* ---- bounds of the model ----
MaxUsers == 2        \* rows the user table may grow to
NumUsers == 2        \* registered users in the follow-graph and password checks
MaxEdges == 2        \* rows the followers table may grow to
MaxPosts == 2        \* rows the post table may grow to
NumNames == 3        \* usernames a form may submit
NumEmails == 2       \* emails a form may submit
NumPasswords == 2    \* passwords a caller may use
NumSalts == 2        \* salts gen_salt may draw
NumRequests == 2     \* requests in flight at once
ConcUsers == 2       \* registered users in the concurrent follow check
RaceNames == 1       \* usernames submitted by concurrent requests
RaceEmails == 1      \* emails submitted by concurrent requests

VARIABLES
    users,        \* user table: sequence of rows, the row's index is User.id
    followers,    \* followers association table: bag of <<follower_id, followed_id>>
    posts,        \* post table: sequence of rows, the row's index is Post.id
    feed,         \* rows returned by the last following_posts() query
    call,         \* the last model-method call and its outcome
    form,         \* the last form submission and its outcome
    plain,        \* per user: the password of the last set_password call
    prev,         \* the user of the last set_password call and the password it replaced
    check,        \* the last check_password call and its result
    pc,           \* per request: where the request handler stands
    req,          \* per request: what was asked and what the handler has read
    sess,         \* per request: the writes pending in its db.session
    resp          \* per request: the response returned

vars == <<users, followers, posts, feed, call, form, plain, prev, check,
          pc, req, sess, resp>>

graphVars == <<followers, posts, feed, call>>
pwVars == <<plain, prev, check>>
reqVars == <<pc, req, sess, resp>>

\* SQL NULL / Python None for an id column
None == 0

Usernames == 1..NumNames
Emails == 1..NumEmails
UserIds == DOMAIN users

\* password_hash column before any set_password (NULL)
NoneHash == << >>

\* the table after k registrations with pairwise different usernames and emails
SeedUsers(k) == [i \in 1..k |-> [username |-> i, email |-> i, password_hash |-> NoneHash]]

NoCall == [op |-> "none", self |-> None, user |-> None, before |-> 0, status |-> "ok"]

NoForm == [op |-> "none", user |-> None, username |-> None, email |-> None,
           queried |-> FALSE, outcome |-> "none"]

\* ---------------------------------------------------------------------
\* follow graph (User.follow / unfollow / is_following)
\* ---------------------------------------------------------------------
is_following(F, self, user) == CopiesIn(<<self, user>>, F) > 0

following_add(F, self, user) == F (+) SetToBag({<<self, user>>})

following_remove(F, self, user) == F (-) SetToBag({<<self, user>>})

follow_unguarded(F, self, user) == following_add(F, self, user)

follow(F, self, user) ==
    IF ~is_following(F, self, user) THEN following_add(F, self, user) ELSE F

unfollow(F, self, user) ==
    IF is_following(F, self, user) THEN following_remove(F, self, user) ELSE F

\* composite primary key (follower_id, followed_id) of the followers table
PrimaryKeyOK(F) == \A e \in BagToSet(F) : CopiesIn(e, F) = 1

Follow(self, user) ==
    /\ is_following(followers, self, user) \/ BagCardinality(followers) < MaxEdges
    /\ LET pending == follow(followers, self, user) IN
         IF PrimaryKeyOK(pending)
         THEN /\ followers' = pending
              /\ call' = [op |-> "follow", self |-> self, user |-> user,
                          before |-> CopiesIn(<<self, user>>, followers), status |-> "ok"]
         ELSE /\ followers' = followers
              /\ call' = [op |-> "follow", self |-> self, user |-> user,
                          before |-> CopiesIn(<<self, user>>, followers),
                          status |-> "IntegrityError"]
    /\ feed' = << >>
    /\ UNCHANGED <<users, posts, form, pwVars, reqVars>>

Unfollow(self, user) ==
    /\ followers' = unfollow(followers, self, user)
    /\ call' = [op |-> "unfollow", self |-> self, user |-> user,
                before |-> CopiesIn(<<self, user>>, followers), status |-> "ok"]
    /\ feed' = << >>
    /\ UNCHANGED <<users, posts, form, pwVars, reqVars>>

\* ---------------------------------------------------------------------
\* posts and the feed query (Post, User.following_posts)
\* ---------------------------------------------------------------------
LatestTimestamp == IF posts = << >> THEN 1 ELSE posts[Len(posts)].timestamp

CreatePost(author) ==
    /\ Len(posts) < MaxPosts
    /\ \E now \in (IF posts = << >> THEN {1} ELSE {LatestTimestamp, LatestTimestamp + 1}) :
         posts' = Append(posts, [user_id |-> author, timestamp |-> now])
    /\ call' = [op |-> "post", self |-> author, user |-> None, before |-> 0, status |-> "ok"]
    /\ feed' = << >>
    /\ UNCHANGED <<users, followers, form, pwVars, reqVars>>

\* .join(Post.author.of_type(Author)): rows <<post id, author id>>
JoinAuthor(P) == {<<p, P[p].user_id>> : p \in DOMAIN P}

FollowersOf(F, author) == {e[1] : e \in {x \in BagToSet(F) : x[2] = author}}

\* .join(Author.followers.of_type(Follower), isouter=...):
\* rows <<post id, author id, follower id or NULL>>
JoinFollowers(F, rows, isouter) ==
    UNION { IF FollowersOf(F, r[2]) = {}
            THEN (IF isouter THEN {<<r[1], r[2], None>>} ELSE {})
            ELSE {<<r[1], r[2], f>> : f \in FollowersOf(F, r[2])} : r \in rows }

\* .where(or_(Follower.id == self.id, Author.id == self.id)); NULL = id is not true
Where(rows, self) == {r \in rows : r[3] = self \/ r[2] = self}

\* .group_by(Post): one result row per post
GroupByPost(rows) == {<<r[1]>> : r \in rows}

following_posts_innerjoin(P, F, self) ==
    GroupByPost(Where(JoinFollowers(F, JoinAuthor(P), FALSE), self))

following_posts(P, F, self) ==
    GroupByPost(Where(JoinFollowers(F, JoinAuthor(P), TRUE), self))

\* .order_by(Post.timestamp.desc()): every listing of the rows by
\* non-increasing timestamp (the order among equal timestamps is not fixed)
OrderByTimestampDesc(P, rows) ==
    LET n == Cardinality(rows) IN
    { s \in [1..n -> rows] :
        /\ \A i, j \in 1..n : i # j => s[i] # s[j]
        /\ \A i, j \in 1..n : i < j => P[s[i][1]].timestamp >= P[s[j][1]].timestamp }

FollowingPosts(self) ==
    /\ \E s \in OrderByTimestampDesc(posts, following_posts(posts, followers, self)) :
         feed' = [i \in DOMAIN s |-> s[i][1]]
    /\ call' = [op |-> "feed", self |-> self, user |-> None, before |-> 0, status |-> "ok"]
    /\ UNCHANGED <<users, followers, posts, form, pwVars, reqVars>>

\* ---------------------------------------------------------------------
\* passwords (User.set_password / User.check_password over werkzeug.security)
\* ---------------------------------------------------------------------
\* strings are sequences of characters
PasswordList == << <<"a">>, <<"a", "b">>, <<"b", "$", "$", "a">>, <<"b">> >>
Passwords == {PasswordList[i] : i \in 1..NumPasswords}

SaltChars == <<"x", "y", "z", "w">>
Salts == {<<SaltChars[i]>> : i \in 1..NumSalts}

NoPassword == << >>

METHOD == <<"scrypt">>

\* _hash_internal: the hex digest of the salted password, taken as
\* collision free: the digest spells out its salt and password in "hex"
Hex(c) == IF c = "$" THEN "24" ELSE IF c = "a" THEN "61" ELSE IF c = "b" THEN "62"
          ELSE IF c = "x" THEN "78" ELSE IF c = "y" THEN "79"
          ELSE IF c = "z" THEN "7a" ELSE IF c = "w" THEN "77" ELSE "00"

hash_internal(method, salt, password) ==
    LET input == salt \o <<"$">> \o password
    IN [i \in 1..Len(input) |-> Hex(input[i])]

\* f"{method}${salt}${h}"
generate_password_hash(password, salt) ==
    METHOD \o <<"$">> \o salt \o <<"$">> \o hash_internal(METHOD, salt, password)

Dollars(str) == {i \in DOMAIN str : str[i] = "$"}

SetMin(S) == CHOOSE x \in S : \A y \in S : x <= y

\* pwhash.split("$", 2) fails when there are fewer than two "$": return False;
\* otherwise compare the recomputed digest with the stored one
check_password_hash(pwhash, password) ==
    IF Cardinality(Dollars(pwhash)) < 2 THEN FALSE
    ELSE LET d1 == SetMin(Dollars(pwhash))
             d2 == SetMin(Dollars(pwhash) \ {d1})
             method == SubSeq(pwhash, 1, d1 - 1)
             salt == SubSeq(pwhash, d1 + 1, d2 - 1)
             hashval == SubSeq(pwhash, d2 + 1, Len(pwhash))
         IN hash_internal(method, salt, password) = hashval

set_password_plaintext(password, salt) == password

\* the value set_password assigns to self.password_hash
set_password(password, salt) == generate_password_hash(password, salt)

check_password(password_hash, password) == check_password_hash(password_hash, password)

NoCheck == [user |-> None, password |-> NoPassword, raised |-> FALSE, result |-> FALSE]

SetPassword(user, password) ==
    /\ \E salt \in Salts :
         users' = [users EXCEPT ![user].password_hash = set_password(password, salt)]
    /\ plain' = [plain EXCEPT ![user] = password]
    /\ prev' = [user |-> user, password |-> plain[user]]
    /\ check' = NoCheck
    /\ UNCHANGED <<graphVars, form, reqVars>>

\* on a user whose password_hash is None, check_password_hash raises
CheckPassword(user, password) ==
    /\ check' = IF users[user].password_hash = NoneHash
                THEN [user |-> user, password |-> password, raised |-> TRUE,
                      result |-> FALSE]
                ELSE [user |-> user, password |-> password, raised |-> FALSE,
                      result |-> check_password(users[user].password_hash, password)]
    /\ UNCHANGED <<users, graphVars, form, plain, prev, reqVars>>

\* ---------------------------------------------------------------------
\* user table and the form validators (RegistrationForm, EditProfileForm)
\* ---------------------------------------------------------------------
\* sa.select(User).where(User.username == data) finds a row
UsernameTaken(U, data) == \E i \in DOMAIN U : U[i].username = data

EmailTaken(U, data) == \E i \in DOMAIN U : U[i].email = data

\* TRUE: the validator returns; FALSE: it raises ValidationError
RegistrationForm_validate_username_skipped(U, data) == TRUE

RegistrationForm_validate_username(U, data) == ~UsernameTaken(U, data)

RegistrationForm_validate_email(U, data) == ~EmailTaken(U, data)

EditProfileForm_validate_username_always(U, original_username, data) ==
    [queried |-> TRUE, valid |-> ~UsernameTaken(U, data)]

EditProfileForm_validate_username(U, original_username, data) ==
    IF data # original_username
    THEN [queried |-> TRUE, valid |-> ~UsernameTaken(U, data)]
    ELSE [queried |-> FALSE, valid |-> TRUE]

UniqueOK_dropped(U) == TRUE

\* unique=True on User.username and User.email
UniqueOK(U) ==
    \A i, j \in DOMAIN U :
        i # j => U[i].username # U[j].username /\ U[i].email # U[j].email

\* registration: validate the form, add the user, commit
Register(username, email) ==
    LET valid == /\ RegistrationForm_validate_username(users, username)
                 /\ RegistrationForm_validate_email(users, email)
        pending == Append(users, [username |-> username, email |-> email,
                                 password_hash |-> NoneHash])
        result(o) == [op |-> "register", user |-> None, username |-> username,
                      email |-> email, queried |-> TRUE, outcome |-> o]
    IN /\ valid => Len(users) < MaxUsers
       /\ IF ~valid
          THEN users' = users /\ form' = result("ValidationError")
          ELSE IF UniqueOK(pending)
               THEN users' = pending /\ form' = result("created")
               ELSE users' = users /\ form' = result("IntegrityError")
       /\ UNCHANGED <<graphVars, pwVars, reqVars>>

\* profile edit: the form is built with current_user.username as
\* original_username; on success the username is assigned and committed
EditProfile(user, username) ==
    LET v == EditProfileForm_validate_username(users, users[user].username, username)
        pending == [users EXCEPT ![user].username = username]
        result(o) == [op |-> "edit", user |-> user, username |-> username,
                      email |-> None, queried |-> v.queried, outcome |-> o]
    IN /\ IF ~v.valid
          THEN users' = users /\ form' = result("ValidationError")
          ELSE IF UniqueOK(pending)
               THEN users' = pending /\ form' = result("saved")
               ELSE users' = users /\ form' = result("IntegrityError")
       /\ UNCHANGED <<graphVars, pwVars, reqVars>>

\* ---------------------------------------------------------------------
\* requests: each runs in its own db.session against the committed tables
\* ---------------------------------------------------------------------
Requests == 1..NumRequests

NoReq == [kind |-> "none", a |-> None, b |-> None, valid |-> TRUE, error |-> "none"]

NoResp == [status |-> 0, pending_before |-> 0]

\* a pending write: insert_user(a = username, b = email),
\* update_username(a = user id, b = username), insert_follower(a = self, b = user)
Write(kind, a, b) == [kind |-> kind, a |-> a, b |-> b]

WriteUsers(U, w) ==
    IF w.kind = "insert_user"
    THEN Append(U, [username |-> w.a, email |-> w.b, password_hash |-> NoneHash])
    ELSE IF w.kind = "update_username" THEN [U EXCEPT ![w.a].username = w.b]
    ELSE U

WriteFollowers(F, w) ==
    IF w.kind = "insert_follower" THEN following_add(F, w.a, w.b) ELSE F

RECURSIVE FlushUsers(_, _)
FlushUsers(U, ws) ==
    IF ws = << >> THEN U ELSE FlushUsers(WriteUsers(U, Head(ws)), Tail(ws))

RECURSIVE FlushFollowers(_, _)
FlushFollowers(F, ws) ==
    IF ws = << >> THEN F ELSE FlushFollowers(WriteFollowers(F, Head(ws)), Tail(ws))

Goto(r, label) == pc' = [pc EXCEPT ![r] = label]

Respond(r, status) ==
    /\ Goto(r, "responded")
    /\ resp' = [resp EXCEPT ![r] = [status |-> status, pending_before |-> Len(sess[r])]]

\* registration request: form.validate_on_submit() runs validate_username ...
BeginRegister(r, username, email) ==
    /\ pc[r] = "idle"
    /\ Len(users) < MaxUsers
    /\ req' = [req EXCEPT ![r] =
                 [kind |-> "register", a |-> username, b |-> email,
                  valid |-> RegistrationForm_validate_username(users, username),
                  error |-> "none"]]
    /\ Goto(r, "username_checked")
    /\ UNCHANGED <<users, graphVars, form, pwVars, sess, resp>>

\* ... and validate_email; a failed validator re-renders the form
ValidateEmail(r) ==
    /\ pc[r] = "username_checked"
    /\ IF req[r].valid /\ RegistrationForm_validate_email(users, req[r].b)
       THEN Goto(r, "validated") /\ UNCHANGED <<req, resp>>
       ELSE /\ req' = [req EXCEPT ![r].valid = FALSE, ![r].error = "ValidationError"]
            /\ Respond(r, 200)
    /\ UNCHANGED <<users, graphVars, form, pwVars, sess>>

\* db.session.add(User(username=..., email=...))
AddUser(r) ==
    /\ pc[r] = "validated" /\ req[r].kind = "register"
    /\ sess' = [sess EXCEPT ![r] = Append(@, Write("insert_user", req[r].a, req[r].b))]
    /\ Goto(r, "pending")
    /\ UNCHANGED <<users, graphVars, form, pwVars, req, resp>>

\* profile edit request: EditProfileForm(current_user.username) validated
BeginEdit(r, user, username) ==
    /\ pc[r] = "idle"
    /\ LET v == EditProfileForm_validate_username(users, users[user].username, username)
       IN IF v.valid
          THEN /\ req' = [req EXCEPT ![r] = [kind |-> "edit", a |-> user, b |-> username,
                                             valid |-> TRUE, error |-> "none"]]
               /\ Goto(r, "validated") /\ UNCHANGED resp
          ELSE /\ req' = [req EXCEPT ![r] = [kind |-> "edit", a |-> user, b |-> username,
                                             valid |-> FALSE, error |-> "ValidationError"]]
               /\ Respond(r, 200)
    /\ UNCHANGED <<users, graphVars, form, pwVars, sess>>

\* current_user.username = form.username.data
AssignUsername(r) ==
    /\ pc[r] = "validated" /\ req[r].kind = "edit"
    /\ sess' = [sess EXCEPT ![r] = Append(@, Write("update_username", req[r].a, req[r].b))]
    /\ Goto(r, "pending")
    /\ UNCHANGED <<users, graphVars, form, pwVars, req, resp>>

\* follow request, first step of User.follow: is_following(user)
BeginFollow(r, self, user) ==
    /\ pc[r] = "idle"
    /\ req' = [req EXCEPT ![r] = [kind |-> "follow", a |-> self, b |-> user,
                                  valid |-> ~is_following(followers, self, user),
                                  error |-> "none"]]
    /\ Goto(r, "checked")
    /\ UNCHANGED <<users, graphVars, form, pwVars, sess, resp>>

\* second step of User.follow: following.add(user) unless already following
FollowAdd(r) ==
    /\ pc[r] = "checked"
    /\ sess' = [sess EXCEPT ![r] =
                  IF req[r].valid THEN Append(@, Write("insert_follower", req[r].a, req[r].b))
                  ELSE @]
    /\ Goto(r, "pending")
    /\ UNCHANGED <<users, graphVars, form, pwVars, req, resp>>

\* db.session.commit(): the flush is checked against the unique columns and
\* the primary key; a violation raises IntegrityError out of the handler
Commit(r) ==
    /\ pc[r] = "pending"
    /\ LET U == FlushUsers(users, sess[r])
           F == FlushFollowers(followers, sess[r])
       IN IF UniqueOK(U) /\ PrimaryKeyOK(F)
          THEN /\ users' = U /\ followers' = F
               /\ sess' = [sess EXCEPT ![r] = << >>]
               /\ Goto(r, "responded")
               /\ resp' = [resp EXCEPT ![r] = [status |-> 302, pending_before |-> Len(sess[r])]]
               /\ UNCHANGED req
          ELSE /\ req' = [req EXCEPT ![r].error = "IntegrityError"]
               /\ Goto(r, "failed")
               /\ UNCHANGED <<users, followers, sess, resp>>
    /\ UNCHANGED <<posts, feed, call, form, pwVars>>

\* any other unhandled exception raised while writes are pending
RaiseException(r) ==
    /\ pc[r] = "pending"
    /\ req' = [req EXCEPT ![r].error = "Exception"]
    /\ Goto(r, "failed")
    /\ UNCHANGED <<users, graphVars, form, pwVars, sess, resp>>

\* abort(404) raised by the handler
Abort404(r) ==
    /\ pc[r] \in {"validated", "pending"}
    /\ req' = [req EXCEPT ![r].error = "NotFound"]
    /\ Goto(r, "notfound")
    /\ UNCHANGED <<users, graphVars, form, pwVars, sess, resp>>

\* errors.py: the session after each handler, and the status it returns
not_found_error(session) == [session |-> session, status |-> 404]

internal_error_norollback(session) == [session |-> session, status |-> 500]

internal_error(session) == [session |-> << >>, status |-> 500]

NotFoundError(r) ==
    /\ pc[r] = "notfound"
    /\ sess' = [sess EXCEPT ![r] = not_found_error(@).session]
    /\ Respond(r, not_found_error(sess[r]).status)
    /\ UNCHANGED <<users, graphVars, form, pwVars, req>>

InternalError(r) ==
    /\ pc[r] = "failed"
    /\ sess' = [sess EXCEPT ![r] = internal_error(@).session]
    /\ Respond(r, internal_error(sess[r]).status)
    /\ UNCHANGED <<users, graphVars, form, pwVars, req>>

\* end of the request: the scoped session is removed
Teardown(r) ==
    /\ pc[r] = "responded"
    /\ pc' = [pc EXCEPT ![r] = "idle"]
    /\ req' = [req EXCEPT ![r] = NoReq]
    /\ sess' = [sess EXCEPT ![r] = << >>]
    /\ resp' = [resp EXCEPT ![r] = NoResp]
    /\ UNCHANGED <<users, graphVars, form, pwVars>>

\* ---------------------------------------------------------------------
\* the state with user table U and nothing else
InitWith(U) ==
    /\ users = U
    /\ followers = EmptyBag
    /\ posts = << >>
    /\ feed = << >>
    /\ call = NoCall
    /\ form = NoForm
    /\ plain = [u \in DOMAIN U |-> NoPassword]
    /\ prev = [user |-> None, password |-> NoPassword]
    /\ check = NoCheck
    /\ pc = [r \in Requests |-> "idle"]
    /\ req = [r \in Requests |-> NoReq]
    /\ sess = [r \in Requests |-> << >>]
    /\ resp = [r \in Requests |-> NoResp]

\* the empty database
Init == InitWith(<< >>)

\* the database after NumUsers registrations
InitRegistered == InitWith(SeedUsers(NumUsers))

GraphNext ==
    \/ \E self \in UserIds, user \in UserIds : Follow(self, user)
    \/ \E self \in UserIds, user \in UserIds : Unfollow(self, user)
    \/ \E author \in UserIds : CreatePost(author)
    \/ \E self \in UserIds : FollowingPosts(self)

SpecGraph == InitRegistered /\ [][GraphNext]_vars

PasswordNext ==
    \/ \E user \in UserIds, password \in Passwords : SetPassword(user, password)
    \/ \E user \in UserIds, password \in Passwords : CheckPassword(user, password)

SpecPassword == InitRegistered /\ [][PasswordNext]_vars

RegNext ==
    \/ \E username \in Usernames, email \in Emails : Register(username, email)
    \/ \E user \in UserIds, username \in Usernames : EditProfile(user, username)

SpecReg == Init /\ [][RegNext]_vars

\* requests served one at a time, with the failures a handler can raise
Alone(r) == \A q \in Requests \ {r} : pc[q] = "idle"

ErrorsNext ==
    \E r \in Requests :
        /\ Alone(r)
        /\ \/ \E username \in Usernames, email \in Emails : BeginRegister(r, username, email)
           \/ ValidateEmail(r)
           \/ AddUser(r)
           \/ \E user \in UserIds, username \in Usernames : BeginEdit(r, user, username)
           \/ AssignUsername(r)
           \/ Commit(r)
           \/ RaiseException(r)
           \/ Abort404(r)
           \/ NotFoundError(r)
           \/ InternalError(r)
           \/ Teardown(r)

SpecErrors == Init /\ [][ErrorsNext]_vars

\* requests interleaved step by step
RegisterRaceNext ==
    \/ \E r \in Requests, username \in 1..RaceNames, email \in 1..RaceEmails :
          BeginRegister(r, username, email)
    \/ \E r \in Requests : ValidateEmail(r)
    \/ \E r \in Requests : AddUser(r)
    \/ \E r \in Requests, user \in UserIds, username \in 1..RaceNames :
          BeginEdit(r, user, username)
    \/ \E r \in Requests : AssignUsername(r)
    \/ \E r \in Requests : Commit(r)
    \/ \E r \in Requests : InternalError(r)
    \/ \E r \in Requests : Teardown(r)

SpecRegisterRace == Init /\ [][RegisterRaceNext]_vars

\* the database after ConcUsers registrations
InitFollowRace == InitWith(SeedUsers(ConcUsers))

\* concurrent requests in which a user follows another user
FollowRaceNext ==
    \/ \E r \in Requests, self \in UserIds :
          \E user \in UserIds \ {self} : BeginFollow(r, self, user)
    \/ \E r \in Requests : FollowAdd(r)
    \/ \E r \in Requests : Commit(r)
    \/ \E r \in Requests : InternalError(r)
    \/ \E r \in Requests : Teardown(r)

SpecFollowRace == InitFollowRace /\ [][FollowRaceNext]_vars

\* ---------------------------------------------------------------------
\* properties
\* ---------------------------------------------------------------------
Edge(c) == <<c.self, c.user>>

\* C1: follow leaves exactly one edge (self,user); follow when already
\* following and unfollow when not following change nothing in the follow
\* graph and raise nothing; after unfollow there is no edge (self,user).
C1_FollowUnfollowIdempotent ==
    [][ /\ call'.op = "follow" =>
             /\ CopiesIn(Edge(call'), followers') = 1
             /\ call'.status = "ok"
             /\ is_following(followers, call'.self, call'.user) => followers' = followers
        /\ call'.op = "unfollow" =>
             /\ CopiesIn(Edge(call'), followers') = 0
             /\ ~is_following(followers, call'.self, call'.user) => followers' = followers
      ]_vars

C1_Witness ==
    /\ call.op = "follow" /\ call.before = 1 /\ call.status = "ok"
    /\ CopiesIn(Edge(call), followers) = 1

\* C7: no reachable state holds a follow edge (A,A).
C7_NoSelfFollow == \A a \in UserIds : ~is_following(followers, a, a)

FeedAuthors(self) == {self} \cup {a \in UserIds : is_following(followers, self, a)}

\* C2: the feed of self holds exactly the posts written by self or by a user
\* self follows, each once, by non-increasing timestamp.
C2_FeedExact ==
    call.op = "feed" =>
        /\ {feed[i] : i \in DOMAIN feed} =
               {p \in DOMAIN posts : posts[p].user_id \in FeedAuthors(call.self)}
        /\ \A i, j \in DOMAIN feed : i # j => feed[i] # feed[j]
        /\ \A i, j \in DOMAIN feed :
               i < j => posts[feed[i]].timestamp >= posts[feed[j]].timestamp

C2_Witness ==
    /\ call.op = "feed" /\ Len(feed) = 2
    /\ posts[feed[1]].timestamp > posts[feed[2]].timestamp
    /\ \E i, j \in DOMAIN feed :
          /\ posts[feed[i]].user_id = call.self
          /\ FollowersOf(followers, call.self) = {}
          /\ posts[feed[j]].user_id # call.self
          /\ Cardinality(FollowersOf(followers, posts[feed[j]].user_id)) >= 2

\* C3: a registration whose username or email is already in the user table
\* is rejected by the form validators, writes no row and never reaches the
\* unique constraint.
C3_DuplicateRejectedByForm ==
    [][ (/\ form'.op = "register"
         /\ UsernameTaken(users, form'.username) \/ EmailTaken(users, form'.email))
        => form'.outcome = "ValidationError" /\ users' = users ]_vars

C3_Witness ==
    /\ form.op = "register" /\ form.outcome = "ValidationError"
    /\ UsernameTaken(users, form.username)
    /\ ~EmailTaken(users, form.email)

\* C10: EditProfileForm.validate_username accepts the original username
\* without a lookup, rejects another username exactly when a user holds it,
\* and a saved edit leaves the usernames pairwise different.
C10_EditProfileValidation ==
    [][ form'.op = "edit" =>
          /\ form'.username = users[form'.user].username =>
                ~form'.queried /\ form'.outcome = "saved"
          /\ form'.username # users[form'.user].username =>
                /\ form'.queried
                /\ form'.outcome = "ValidationError" <=> UsernameTaken(users, form'.username)
          /\ form'.outcome # "IntegrityError"
          /\ form'.outcome = "saved" =>
                /\ users'[form'.user].username = form'.username
                /\ \A v \in DOMAIN users' :
                      v # form'.user => users'[v].username # form'.username
      ]_vars

C10_Witness ==
    /\ form.op = "edit" /\ form.outcome = "saved" /\ ~form.queried
    /\ users[form.user].username = form.username
    /\ Len(users) >= 2

\* C5: check_password returns true exactly for the password of the last
\* set_password call on that user (so an earlier password is rejected), and
\* the stored password_hash is never that plaintext password.
C5_PasswordRoundTrip ==
    /\ (check.user # None /\ ~check.raised) =>
          (check.result <=> check.password = plain[check.user])
    /\ \A u \in UserIds :
          plain[u] # NoPassword =>
             /\ users[u].password_hash # plain[u]
             /\ users[u].password_hash # NoneHash

C5_Witness ==
    /\ check.user # None /\ ~check.raised /\ ~check.result
    /\ check.user = prev.user /\ check.password = prev.password
    /\ plain[check.user] # prev.password

C6_ErrorHandlers ==
    [][ \A r \in Requests :
          /\ (pc[r] = "failed" /\ pc'[r] = "responded") =>
                /\ resp'[r].status = 500
                /\ sess'[r] = << >>
                /\ users' = users /\ followers' = followers
          /\ (pc[r] = "notfound" /\ pc'[r] = "responded") =>
                /\ resp'[r].status = 404
                /\ sess'[r] = sess[r]
                /\ users' = users /\ followers' = followers
      ]_vars

C6_Witness ==
    \E r \in Requests :
        /\ pc[r] = "responded" /\ resp[r].status = 500
        /\ resp[r].pending_before > 0 /\ sess[r] = << >>
        /\ req[r].error = "Exception"

\* C8: a request in which A follows B never fails with a duplicate-primary-key
\* error and ends with exactly one edge (A,B).
C8_ConcurrentFollowNeverFails ==
    \A r \in Requests :
        req[r].kind = "follow" =>
            /\ req[r].error # "IntegrityError"
            /\ pc[r] = "responded" =>
                  resp[r].status = 302 /\ CopiesIn(<<req[r].a, req[r].b>>, followers) = 1

\* C9: a registration request is never rejected by the unique constraint:
\* it either creates the user or fails form validation.
C9_ConcurrentRegisterRejectedByForm ==
    \A r \in Requests :
        req[r].kind = "register" =>
            /\ req[r].error # "IntegrityError"
            /\ pc[r] = "responded" /\ req[r].error # "NotFound" /\ req[r].error # "Exception" =>
                  \/ resp[r].status = 302
                  \/ resp[r].status = 200 /\ req[r].error = "ValidationError"
====
